---------------------------- MODULE Spec2Model ----------------------------
(***************************************************************************)
(* Model of dclaw2maxval_withlev (src/python/dclaw/maxval.py): the         *)
(* temporal reduction of a series of gridded frames into per-cell summary  *)
(* arrays (running max/min values, the level each was recorded at, arrival *)
(* and peak times), followed by the never-inundated masking.               *)
(*                                                                         *)
(* Numbers.  The arrays of the program hold IEEE floating point numbers.   *)
(* A number is modelled as a record [n, d]: d > 0 is the rational n/d in   *)
(* lowest terms, [1,0] and [-1,0] are +inf and -inf, [0,0] is NaN.  The    *)
(* arithmetic and the comparisons follow IEEE (x/0, inf-inf, 0*inf,        *)
(* comparisons with NaN are false).  Rounding and signed zeros are not     *)
(* modelled: finite arithmetic is exact.                                   *)
(***************************************************************************)
EXTENDS Integers, Sequences, FiniteSets, TLC

----------------------------------------------------------------------------
(* Extended rational arithmetic (numpy float semantics) *)

Abs(i) == IF i < 0 THEN -i ELSE i

Sign(i) == IF i > 0 THEN 1 ELSE IF i < 0 THEN -1 ELSE 0

RECURSIVE GCD(_, _)
GCD(a, b) == IF b = 0 THEN a ELSE GCD(b, a % b)

\* the finite number n/d (d # 0) in lowest terms
R(n, d) ==
  LET g == GCD(Abs(n), Abs(d))
      s == IF d < 0 THEN -1 ELSE 1
  IN  [n |-> s * (n \div g), d |-> s * (d \div g)]

NaN == [n |-> 0, d |-> 0]

Inf(s) == [n |-> s, d |-> 0]

Zero == [n |-> 0, d |-> 1]

IsNaN(x) == x.d = 0 /\ x.n = 0

IsInf(x) == x.d = 0 /\ x.n # 0

IsFinite(x) == x.d > 0

FNeg(x) == [n |-> -x.n, d |-> x.d]

FAdd(x, y) ==
  IF IsNaN(x) \/ IsNaN(y) THEN NaN
  ELSE IF IsInf(x) /\ IsInf(y) THEN (IF x.n = y.n THEN x ELSE NaN)
  ELSE IF IsInf(x) THEN x
  ELSE IF IsInf(y) THEN y
  ELSE R(x.n * y.d + y.n * x.d, x.d * y.d)

FSub(x, y) == FAdd(x, FNeg(y))

FMul(x, y) ==
  IF IsNaN(x) \/ IsNaN(y) THEN NaN
  ELSE IF IsInf(x) \/ IsInf(y)
       THEN (IF x.n = 0 \/ y.n = 0 THEN NaN ELSE Inf(Sign(x.n) * Sign(y.n)))
  ELSE R(x.n * y.n, x.d * y.d)

FDiv(x, y) ==
  IF IsNaN(x) \/ IsNaN(y) THEN NaN
  ELSE IF IsInf(x) THEN (IF IsInf(y) THEN NaN
                         ELSE IF y.n < 0 THEN FNeg(x) ELSE x)
  ELSE IF IsInf(y) THEN Zero
  ELSE IF y.n = 0 THEN (IF x.n = 0 THEN NaN ELSE Inf(Sign(x.n)))
  ELSE R(x.n * y.d, x.d * y.n)

RECURSIVE SqrtSearch(_, _, _)
SqrtSearch(k, lo, hi) ==
  IF lo >= hi THEN lo
  ELSE LET mid == (lo + hi + 1) \div 2
       IN  IF mid * mid <= k THEN SqrtSearch(k, mid, hi)
           ELSE SqrtSearch(k, lo, mid - 1)

\* the exact integer square root; defined on perfect squares only
ISqrt(k) == CHOOSE r \in {SqrtSearch(k, 0, IF k < 46340 THEN k ELSE 46340)} : r * r = k

FSqrt(x) ==
  IF IsNaN(x) THEN NaN
  ELSE IF IsInf(x) THEN (IF x.n > 0 THEN x ELSE NaN)
  ELSE IF x.n < 0 THEN NaN
  ELSE [n |-> ISqrt(x.n), d |-> ISqrt(x.d)]

FGt(x, y) ==
  IF IsNaN(x) \/ IsNaN(y) THEN FALSE
  ELSE IF x.d = 0 /\ y.d = 0 THEN x.n > y.n
  ELSE x.n * y.d > y.n * x.d

FLt(x, y) == FGt(y, x)

FGe(x, y) == (~IsNaN(x)) /\ (~IsNaN(y)) /\ ~FGt(y, x)

FEq(x, y) == (~IsNaN(x)) /\ (~IsNaN(y)) /\ x = y

----------------------------------------------------------------------------
(* Program constants *)

\* rho_f, rho_s: the default densities of the fluid and the solid phase
rho_f == 1000

rho_s == 2700

\* the gravity 9.81 of the froude number
grav == R(981, 100)

\* hmin_fill, the initial value of h_min
hmin_fill == R(99999, 1)

\* eta > 0.01: the arrival threshold
eta_arrival == R(1, 100)

\* h_max < 0.00001: the never-inundated threshold
h_never == R(1, 100000)

\* (time - eta_max_time) < 1 * 60
late_window == 60

\* the sentinel -1 of the three time arrays
not_arrived == R(-1, 1)

----------------------------------------------------------------------------
(* Bounds and input sets *)

\* the number of frames (files) folded in one run
MaxFolds == 2

\* the finest refinement level of a frame (band 9)
MaxLevel == 1

Cells == {1, 2}

Levels == 0 .. MaxLevel

\* the times of the frames (the first token of fort.t)
Times == {0, 30}

\* transform[0], the cell size of the rasters
dx == R(1, 1)

\* flow states (h, hu, hv, hm) (bands 1 to 4): dry and at rest, dry with
\* momenta left, and a flowing mixture; 9.81 * h and (hu / h)^2 + (hv / h)^2
\* have rational square roots
FlowStates ==
  { <<Zero, Zero, Zero, Zero>>,
    <<Zero, R(327, 100), R(436, 100), R(109, 200)>>,
    <<R(109, 100), R(327, 100), R(436, 100), R(109, 200)>> }

\* surface elevations eta (band 8): at the arrival threshold, and above it
Etas == {R(1, 100), R(2, 100)}

\* what one cell of a frame holds
CellInputs ==
  { [h |-> q[1], hu |-> q[2], hv |-> q[3], hm |-> q[4], eta |-> eta, level |-> l] :
      q \in FlowStates, eta \in Etas, l \in Levels }

\* the frames read from the files: a flow state, the same at the cells of the
\* grid, on a mesh whose level differs from cell to cell
Frames ==
  { [time |-> t, cell |-> [c \in Cells |-> [x EXCEPT !.level = lv[c]]]] :
      t \in Times, x \in {y \in CellInputs : y.level = 0}, lv \in [Cells -> Levels] }

\* what one cell holds in the frames of a run whose files come in the order
\* of their times: a flow at rest or moving, with a surface elevation at or
\* above the arrival threshold
TimedCellInputs ==
  { [h |-> q[1], hu |-> q[2], hv |-> q[3], hm |-> q[4], eta |-> eta, level |-> l] :
      q \in { <<R(109, 100), Zero, Zero, Zero>>,
              <<R(109, 100), R(327, 100), R(436, 100), R(109, 200)>> },
      eta \in {R(1, 100), R(2, 100), R(3, 100)},
      l \in Levels }

\* the frames of such a run, at three times 30 apart
TimedFrames ==
  { [time |-> t, cell |-> [c \in Cells |-> [x EXCEPT !.level = lv[c]]]] :
      t \in {0, 30, 60}, x \in {y \in TimedCellInputs : y.level = 0},
      lv \in {m \in [Cells -> {0, MaxLevel}] : \E c \in Cells : m[c] = MaxLevel} }

\* the time of a file and its bands (h, hu, hv, hm, eta), for a run whose
\* frames are kept: three flows with finite derived quantities that no single
\* frame dominates (the deepest is neither the fastest nor the highest), one
\* of them below the datum, and a dry cell at rest
HistFlows ==
  { <<0, R(109, 100), Zero, Zero, Zero, R(-1, 100)>>,
    <<0, R(109, 100), R(327, 100), R(436, 100), R(109, 200), R(3, 100)>>,
    <<30, R(436, 100), R(327, 100), R(436, 100), R(109, 200), R(2, 100)>>,
    <<30, Zero, Zero, Zero, Zero, R(1, 100)>> }

\* what one cell holds in those frames
HistCellInputs ==
  { [h |-> q[2], hu |-> q[3], hv |-> q[4], hm |-> q[5], eta |-> q[6], level |-> l] :
      q \in HistFlows, l \in Levels }

\* those frames: the flow is the same at the cells of the grid, each cell is
\* at the coarsest or at the finest level, the first cell never finer than
\* the second
HistFrames ==
  { [time |-> q[1], cell |-> [c \in Cells |->
       [h |-> q[2], hu |-> q[3], hv |-> q[4], hm |-> q[5], eta |-> q[6], level |-> lv[c]]]] :
      q \in HistFlows, lv \in {m \in [Cells -> {0, MaxLevel}] : m[1] <= m[2]} }

----------------------------------------------------------------------------
(* The derived quantities of a frame, lines 337-346 *)

\* m = hm / h; m[np.isnan(m)] = 0
solid_fraction(hm, h) ==
  LET m == FDiv(hm, h) IN IF IsNaN(m) THEN Zero ELSE m

\* vel = ((hu / h) ** 2 + (hv / h) ** 2) ** 0.5; vel[np.isnan(vel)] = 0
velocity(hu, hv, h) ==
  LET u == FDiv(hu, h)
      v == FDiv(hv, h)
      vel == FSqrt(FAdd(FMul(u, u), FMul(v, v)))
  IN  IF IsNaN(vel) THEN Zero ELSE vel

\* froude = vel / np.sqrt(9.81 * h)
froude_number(vel, h) == FDiv(vel, FSqrt(FMul(grav, h)))

\* density = (1.0 - m) * rho_f + (m * rho_s)
density_of(m) ==
  FAdd(FMul(FSub(R(1, 1), m), R(rho_f, 1)), FMul(m, R(rho_s, 1)))

\* mom = (h * dx * dx) * density * vel
momentum(h, density, vel) == FMul(FMul(FMul(FMul(h, dx), dx), density), vel)

\* the per-cell arrays of one frame, raw and derived
Derived(x) ==
  LET m   == solid_fraction(x.hm, x.h)
      vel == velocity(x.hu, x.hv, x.h)
      rho == density_of(m)
  IN  [h |-> x.h, eta |-> x.eta, level |-> x.level, m |-> m, vel |-> vel,
       froude |-> froude_number(vel, x.h), density |-> rho,
       mom |-> momentum(x.h, rho, vel)]

\* the derived arrays of every cell content a frame can hold
DerivedTable ==
  [x \in CellInputs \cup TimedCellInputs \cup HistCellInputs |-> Derived(x)]

----------------------------------------------------------------------------
(* The summary arrays and one pass of the loop over the files.  Every     *)
(* array operation of the program is elementwise, so the arrays are kept  *)
(* as one record per cell: st[c].h_max is h_max at cell c.                *)

\* the arrays as created before the loop, lines 287-308
InitCell ==
  [h_max |-> Zero, h_min |-> hmin_fill, m_max |-> Zero, vel_max |-> Zero,
   mom_max |-> Zero, eta_max |-> Zero, lev_max |-> 0, froude_max |-> Zero,
   h_max_lev |-> 0, h_min_lev |-> 0, m_max_lev |-> 0, vel_max_lev |-> 0,
   mom_max_lev |-> 0, eta_max_lev |-> 0, froude_max_lev |-> 0,
   arrival_time |-> not_arrived, eta_max_time |-> not_arrived,
   vel_max_time |-> not_arrived]

InitArrays == [c \in Cells |-> InitCell]

\* maxlevel = level.max()
maxlevel(f) == CHOOSE l \in {f.cell[c].level : c \in Cells} :
                 \A c \in Cells : f.cell[c].level <= l

\* overwrite_max with the level test of its first clause left out
overwrite_max_any_level(level, q_lev, q, q_max) ==
  FGt(q, q_max) \/ level > q_lev

\* overwrite_max with its second clause left out
overwrite_max_by_value(level, q_lev, q, q_max) ==
  level >= q_lev /\ FGt(q, q_max)

\* overwrite_max without the comparison of the values
overwrite_max_not_coarser(level, q_lev, q, q_max) == level >= q_lev

\* overwrite_max with its first clause left out
overwrite_max_finer_only(level, q_lev, q, q_max) == level > q_lev

\* ((level >= q_lev) & (q > q_max)) | (level > q_lev)
overwrite_max(level, q_lev, q, q_max) ==
  (level >= q_lev /\ FGt(q, q_max)) \/ level > q_lev

\* overwrite_min with its second clause left out
overwrite_min_by_value(level, q_lev, q, q_min) ==
  level >= q_lev /\ FLt(q, q_min)

\* ((level >= h_min_lev) & (h < h_min)) | (level > h_min_lev)
overwrite_min(level, q_lev, q, q_min) ==
  (level >= q_lev /\ FLt(q, q_min)) \/ level > q_lev

\* overwrite_arrival without the test that no arrival is recorded yet
overwrite_arrival_again(eta, arrival, level, maxlev) ==
  FGt(eta, eta_arrival) /\ level = maxlev

\* overwrite_arrival without the test of the frame's finest level
overwrite_arrival_any_level(eta, arrival, level, maxlev) ==
  FGt(eta, eta_arrival) /\ FLt(arrival, Zero)

\* (eta > 0.01) & (arrival_time < 0) & (level == maxlevel)
overwrite_arrival(eta, arrival, level, maxlev) ==
  FGt(eta, eta_arrival) /\ FLt(arrival, Zero) /\ level = maxlev

\* raise_lev_max that takes the level of the latest frame
raise_lev_max_latest(level, lev_max) == level

\* lev_max[level > lev_max] = level[level > lev_max] at one cell, line 351
raise_lev_max(level, lev_max) == IF level > lev_max THEN level ELSE lev_max

\* set_level that writes the frame's level whatever the mask
set_level_always(overwrite, level, q_lev) == level

\* q_lev[overwrite] = level[overwrite] at one cell, lines 376-382
set_level(overwrite, level, q_lev) == IF overwrite THEN level ELSE q_lev

\* not_super_late without the test that an arrival is recorded
not_super_late_unarrived(time, eta_time, arrival) ==
  FLt(FSub(time, eta_time), R(late_window, 1))

\* not_super_late without the window
not_super_late_no_window(time, eta_time, arrival) == FGe(arrival, Zero)

\* ((time - eta_max_time) < 1 * 60) & (arrival_time >= 0)
not_super_late(time, eta_time, arrival) ==
  FLt(FSub(time, eta_time), R(late_window, 1)) /\ FGe(arrival, Zero)

\* the body of the loop at one cell, lines 348-415: s the arrays at the cell,
\* d the frame's arrays at the cell, mxl the frame's maxlevel
FoldCell(s, d, time, mxl) ==
  LET level     == d.level
      ow_eta    == overwrite_max(level, s.eta_max_lev, d.eta, s.eta_max)
      ow_h_max  == overwrite_max(level, s.h_max_lev, d.h, s.h_max)
      ow_h_min  == overwrite_min(level, s.h_min_lev, d.h, s.h_min)
      ow_m      == overwrite_max(level, s.m_max_lev, d.m, s.m_max)
      ow_vel    == overwrite_max(level, s.vel_max_lev, d.vel, s.vel_max)
      ow_mom    == overwrite_max(level, s.mom_max_lev, d.mom, s.mom_max)
      ow_froude == overwrite_max(level, s.froude_max_lev, d.froude, s.froude_max)
      ow_arr    == overwrite_arrival(d.eta, s.arrival_time, level, mxl)
      arrival   == IF ow_arr THEN time ELSE s.arrival_time
      eta_time  == IF ow_arr THEN time ELSE s.eta_max_time
      vel_time  == IF ow_arr THEN time ELSE s.vel_max_time
      recent    == not_super_late(time, eta_time, arrival)
  IN  [h_max          |-> IF ow_h_max THEN d.h ELSE s.h_max,
       h_min          |-> IF ow_h_min THEN d.h ELSE s.h_min,
       m_max          |-> IF ow_m THEN d.m ELSE s.m_max,
       vel_max        |-> IF ow_vel THEN d.vel ELSE s.vel_max,
       mom_max        |-> IF ow_mom THEN d.mom ELSE s.mom_max,
       eta_max        |-> IF ow_eta THEN d.eta ELSE s.eta_max,
       lev_max        |-> raise_lev_max(level, s.lev_max),
       froude_max     |-> IF ow_froude THEN d.froude ELSE s.froude_max,
       h_max_lev      |-> set_level(ow_h_max, level, s.h_max_lev),
       h_min_lev      |-> set_level(ow_h_min, level, s.h_min_lev),
       m_max_lev      |-> set_level(ow_m, level, s.m_max_lev),
       vel_max_lev    |-> set_level(ow_vel, level, s.vel_max_lev),
       mom_max_lev    |-> set_level(ow_mom, level, s.mom_max_lev),
       eta_max_lev    |-> set_level(ow_eta, level, s.eta_max_lev),
       froude_max_lev |-> set_level(ow_froude, level, s.froude_max_lev),
       arrival_time   |-> arrival,
       eta_max_time   |-> IF ow_eta /\ recent THEN time ELSE eta_time,
       vel_max_time   |-> IF ow_vel /\ recent THEN time ELSE vel_time]

\* the body of the loop for one file, lines 323-415
FoldArrays(s, f) ==
  [c \in Cells |->
     FoldCell(s[c], DerivedTable[f.cell[c]], R(f.time, 1), maxlevel(f))]

\* never_inundated = h_max < 0.00001
never_inundated(h_max) == FLt(h_max, h_never)

\* a[a < 0] = np.nan
NegToNaN(a) == IF FLt(a, Zero) THEN NaN ELSE a

\* MaskTime that leaves the times of a never-inundated cell as they are
MaskTime_negative_only(t, never) == NegToNaN(t)

\* MaskTime that resets a never-inundated cell to the sentinel -1 after the
\* negative times were replaced
MaskTime_reset(t, never) == IF never THEN not_arrived ELSE NegToNaN(t)

\* t[never_inundated] = np.nan; t[t < 0] = np.nan, lines 423-425 and 428-430
MaskTime(t, never) == NegToNaN(IF never THEN NaN ELSE t)

\* the masking after the loop at one cell, lines 417-430
MaskCell(s) ==
  LET never == never_inundated(s.h_max)
  IN  [s EXCEPT
         !.h_max        = IF never THEN NaN ELSE @,
         !.h_min        = IF FEq(@, Zero) THEN NaN ELSE @,
         !.m_max        = IF never THEN NaN ELSE @,
         !.vel_max      = IF never THEN NaN ELSE @,
         !.mom_max      = IF never THEN NaN ELSE @,
         !.eta_max_time = MaskTime(@, never),
         !.vel_max_time = MaskTime(@, never),
         !.arrival_time = MaskTime(@, never),
         !.froude_max   = IF never THEN NaN ELSE @]

\* the masking after the loop, lines 417-430
MaskArrays(s) == [c \in Cells |-> MaskCell(s[c])]

----------------------------------------------------------------------------
(* The run *)

VARIABLES
  st,         \* the summary arrays
  pc,         \* "fold": in the loop over the files; "masked": past line 430
  nfolds,     \* the number of frames folded
  frame,      \* the frame folded last
  folded,     \* the arrays as the loop left them, once past the loop
  first_hit,  \* per cell, the time of the first frame folded that had
              \* eta > 0.01 at the frame's finest level there (at most one)
  h_min_left, \* per cell, whether h_min has held another value than its fill
  hist,       \* the frames folded, in order (kept by the recorded run only)
  written     \* the files the run has written: << >> while a file is not
              \* written, <<its content>> once it is

vars == <<st, pc, nfolds, frame, folded, first_hit, h_min_left, hist, written>>

\* the value of frame before the first file is read
NoFrame == [time |-> 0, cell |-> [c \in Cells |-> CHOOSE x \in CellInputs : TRUE]]

Init ==
  /\ st = InitArrays
  /\ pc = "fold"
  /\ nfolds = 0
  /\ frame = NoFrame
  /\ folded = InitArrays
  /\ first_hit = [c \in Cells |-> << >>]
  /\ h_min_left = [c \in Cells |-> FALSE]
  /\ hist = << >>
  /\ written = [out_file |-> << >>, extent_shp_val_out_file |-> << >>]

\* whether frame f has eta > 0.01 at cell c and no cell of f has a finer level
Hits(f, c) ==
  /\ f.cell[c].eta.n * 100 > f.cell[c].eta.d
  /\ \A k \in Cells : f.cell[k].level <= f.cell[c].level

\* one pass of the loop, lines 310-415: the file of frame f is read and folded
FoldStep(f) ==
  /\ st' = FoldArrays(st, f)
  /\ frame' = f
  /\ nfolds' = nfolds + 1
  /\ first_hit' = [c \in Cells |->
                     IF first_hit[c] = << >> /\ Hits(f, c)
                     THEN <<f.time>> ELSE first_hit[c]]
  /\ h_min_left' = [c \in Cells |-> h_min_left[c] \/ st'[c].h_min # hmin_fill]
  /\ UNCHANGED <<pc, folded, written>>

\* the loop over the files of a run
Fold ==
  /\ pc = "fold"
  /\ nfolds < MaxFolds
  /\ \E f \in Frames : FoldStep(f)
  /\ UNCHANGED hist

\* the loop is over, lines 417-430; it folded one file at least (lines 279-281)
Finalize ==
  /\ pc = "fold"
  /\ nfolds >= 1
  /\ st' = MaskArrays(st)
  /\ folded' = st
  /\ pc' = "masked"
  /\ UNCHANGED <<nfolds, frame, first_hit, h_min_left, hist, written>>

Next == Fold \/ Finalize

Spec == Init /\ [][Next]_vars

\* a run of two files that keeps the frames it folded
FoldPair ==
  /\ pc = "fold"
  /\ Len(hist) < 2
  /\ \E f \in Frames : FoldStep(f) /\ hist' = Append(hist, f)

SpecPair == Init /\ [][FoldPair]_vars

\* the loop over files sorted by time (the order of the files' names)
FoldTimed ==
  /\ pc = "fold"
  /\ nfolds < MaxFolds + 1
  /\ \E f \in TimedFrames : f.time >= frame.time /\ FoldStep(f)
  /\ UNCHANGED hist

SpecTimed == Init /\ [][FoldTimed]_vars

\* the loop of a run that keeps the frames it folded
FoldHist ==
  /\ pc = "fold"
  /\ Len(hist) < MaxFolds + 1
  /\ \E f \in HistFrames : FoldStep(f) /\ hist' = Append(hist, f)

SpecHist == Init /\ [][FoldHist]_vars

\* the bands of the raster at one cell, lines 447-458
Bands(s, write_froude) ==
  <<s.h_max, s.vel_max, s.mom_max, s.m_max, s.eta_max_time, s.vel_max_time,
    s.eta_max, s.lev_max, s.arrival_time, s.h_min>>
    \o (IF write_froude THEN <<s.froude_max>> ELSE << >>)

\* the cells of the extent, lines 461-466
Extent(s, extent_shp_val) ==
  {c \in Cells :
     FGt(CASE extent_shp_val = "height"   -> s[c].h_max
           [] extent_shp_val = "momentum" -> s[c].mom_max
           [] extent_shp_val = "velocity" -> s[c].vel_max, Zero)}

\* the loop of a whole run
FoldRun ==
  /\ pc = "fold"
  /\ Len(hist) < MaxFolds
  /\ \E f \in HistFrames : FoldStep(f) /\ hist' = Append(hist, f)

\* the raster is written and closed, lines 438-458
WriteRaster ==
  /\ pc = "masked"
  /\ \E write_froude \in BOOLEAN :
       written' = [written EXCEPT
                     !.out_file = <<[c \in Cells |-> Bands(st[c], write_froude)]>>]
  /\ pc' = "raster"
  /\ UNCHANGED <<st, nfolds, frame, folded, first_hit, h_min_left, hist>>

\* extent_shp is False: the run ends past line 460
NoExtent ==
  /\ pc = "raster"
  /\ pc' = "done"
  /\ UNCHANGED <<st, nfolds, frame, folded, first_hit, h_min_left, hist, written>>

\* DelineateExtent with the shapefile written before is_valid is asserted
DelineateExtent_write_first ==
  /\ pc = "raster"
  /\ \E extent_shp_val \in {"height", "momentum", "velocity"}, is_valid \in BOOLEAN :
       /\ written' = [written EXCEPT
                        !.extent_shp_val_out_file = <<Extent(st, extent_shp_val)>>]
       /\ pc' = IF is_valid THEN "done" ELSE "AssertionError"
  /\ UNCHANGED <<st, nfolds, frame, folded, first_hit, h_min_left, hist>>

\* lines 461-482: the extent is polygonized, unioned and buffered; is_valid is
\* what the geometry library finds it to be; the assert of line 474 raises
\* when it is not, else the shapefile is written
DelineateExtent ==
  /\ pc = "raster"
  /\ \E extent_shp_val \in {"height", "momentum", "velocity"}, is_valid \in BOOLEAN :
       IF is_valid
       THEN /\ written' = [written EXCEPT
                             !.extent_shp_val_out_file = <<Extent(st, extent_shp_val)>>]
            /\ pc' = "done"
       ELSE /\ pc' = "AssertionError"
            /\ UNCHANGED written
  /\ UNCHANGED <<st, nfolds, frame, folded, first_hit, h_min_left, hist>>

NextRun == FoldRun \/ Finalize \/ WriteRaster \/ NoExtent \/ DelineateExtent

SpecRun == Init /\ [][NextRun]_vars

----------------------------------------------------------------------------
(* The tracked quantities *)

Quantities == {"eta", "h_max", "h_min", "m", "vel", "mom", "froude"}

\* the recorded value of quantity q in the arrays s of a cell
Val(s, q) ==
  CASE q = "eta"    -> s.eta_max
    [] q = "h_max"  -> s.h_max
    [] q = "h_min"  -> s.h_min
    [] q = "m"      -> s.m_max
    [] q = "vel"    -> s.vel_max
    [] q = "mom"    -> s.mom_max
    [] q = "froude" -> s.froude_max

\* the level at which that value was recorded
Lev(s, q) ==
  CASE q = "eta"    -> s.eta_max_lev
    [] q = "h_max"  -> s.h_max_lev
    [] q = "h_min"  -> s.h_min_lev
    [] q = "m"      -> s.m_max_lev
    [] q = "vel"    -> s.vel_max_lev
    [] q = "mom"    -> s.mom_max_lev
    [] q = "froude" -> s.froude_max_lev

\* the value of quantity q in the arrays d of a frame at a cell
New(d, q) ==
  CASE q = "eta"    -> d.eta
    [] q = "h_max"  -> d.h
    [] q = "h_min"  -> d.h
    [] q = "m"      -> d.m
    [] q = "vel"    -> d.vel
    [] q = "mom"    -> d.mom
    [] q = "froude" -> d.froude

\* the arrays of frame f at cell c
FrameAt(f, c) == DerivedTable[f.cell[c]]

\* this step folds a frame
IsFold == pc = "fold" /\ nfolds' = nfolds + 1

----------------------------------------------------------------------------
(* C1: a fold whose frame level at a cell is strictly lower than the level  *)
(* recorded for a quantity there leaves the value and the level recorded    *)
(* for that quantity at that cell unchanged, whatever the frame's value.    *)
C1_CoarserFrameKeepsRecord ==
  [][IsFold =>
       \A c \in Cells, q \in Quantities :
         frame'.cell[c].level < Lev(st[c], q) =>
           /\ Val(st'[c], q) = Val(st[c], q)
           /\ Lev(st'[c], q) = Lev(st[c], q)]_vars

\* the frame folded last was coarser at a cell than the record of eta_max
\* there, with a larger eta, and coarser than the record of h_min, with a
\* smaller h
C1_Witness ==
  /\ nfolds >= 2
  /\ \E c \in Cells :
       /\ frame.cell[c].level < st[c].eta_max_lev
       /\ FGt(FrameAt(frame, c).eta, st[c].eta_max)
  /\ \E c \in Cells :
       /\ frame.cell[c].level < st[c].h_min_lev
       /\ FLt(FrameAt(frame, c).h, st[c].h_min)

----------------------------------------------------------------------------
(* C2: from the initial arrays, two frames of which one is strictly finer   *)
(* than the other at a cell leave there, for every quantity, the value and  *)
(* the level of the finer frame, in either order of the two folds (every    *)
(* ordered pair of frames is a run) and whatever the two values are.        *)
C2_FinerFrameWins ==
  Len(hist) = 2 =>
    \A c \in Cells, q \in Quantities :
      LET a == hist[1]
          b == hist[2]
          finer == IF a.cell[c].level > b.cell[c].level THEN a ELSE b
      IN  a.cell[c].level # b.cell[c].level =>
            /\ Val(st[c], q) = New(FrameAt(finer, c), q)
            /\ Lev(st[c], q) = finer.cell[c].level

\* the finer frame was folded first and loses the comparison of eta and of
\* vel against the coarser frame folded after it
C2_Witness ==
  /\ Len(hist) = 2
  /\ \E c \in Cells :
       /\ hist[1].cell[c].level > hist[2].cell[c].level
       /\ FGt(FrameAt(hist[2], c).eta, FrameAt(hist[1], c).eta)
       /\ FGt(FrameAt(hist[2], c).vel, FrameAt(hist[1], c).vel)
       /\ st[c].eta_max = FrameAt(hist[1], c).eta

\* the arrays after folding the frames of sequence fs, in order, from s
RECURSIVE FoldAll(_, _)
FoldAll(s, fs) ==
  IF fs = << >> THEN s ELSE FoldAll(FoldArrays(s, Head(fs)), Tail(fs))

\* whether value x wins the comparison of quantity q against y
Wins(q, x, y) == IF q = "h_min" THEN FLt(x, y) ELSE FGt(x, y)

(* C3: from the initial arrays, two frames with the same level at a cell    *)
(* leave there, for every quantity, the same value and level in the order   *)
(* T1,T2 as in the order T2,T1, and they are the value and the level that a *)
(* single fold leaves of one of the two frames whose value the other's does *)
(* not beat (the larger value; for h_min the smaller).                      *)
C3_SameLevelValueWins ==
  Len(hist) = 2 =>
    \A c \in Cells, q \in Quantities :
      LET a  == hist[1]
          b  == hist[2]
          ab == st[c]
          ba == FoldAll(InitArrays, <<b, a>>)[c]
          Beaten(x, y) == Wins(q, New(FrameAt(y, c), q), New(FrameAt(x, c), q))
          SameAsOnly(x) ==
            LET one == FoldAll(InitArrays, <<x>>)[c]
            IN  Val(ab, q) = Val(one, q) /\ Lev(ab, q) = Lev(one, q)
      IN  a.cell[c].level = b.cell[c].level =>
            /\ Val(ab, q) = Val(ba, q) /\ Lev(ab, q) = Lev(ba, q)
            /\ \/ ~Beaten(a, b) /\ SameAsOnly(a)
               \/ ~Beaten(b, a) /\ SameAsOnly(b)

----------------------------------------------------------------------------
(* C4: once a fold has set arrival_time at a cell (to a frame time >= 0),   *)
(* no later fold changes arrival_time there, whatever the later frame's     *)
(* time, level and surface elevation are.                                   *)
C4_ArrivalOnce ==
  [][IsFold =>
       \A c \in Cells :
         FGe(st[c].arrival_time, Zero) =>
           st'[c].arrival_time = st[c].arrival_time]_vars

\* the frame folded last has eta > 0.01 at its finest level at a cell whose
\* arrival had been recorded by an earlier fold, at another time
C4_Witness ==
  /\ pc = "fold"
  /\ nfolds >= 2
  /\ \E c \in Cells :
       /\ Hits(frame, c)
       /\ FGe(st[c].arrival_time, Zero)
       /\ st[c].arrival_time # R(frame.time, 1)

(* C5: after any sequence of folds, arrival_time at a cell is the time of   *)
(* the first frame folded that had eta > 0.01 there while the cell was at   *)
(* the finest level of that frame, and is still -1 if and only if no frame  *)
(* folded had both.                                                         *)
C5_ArrivalIsFirstHit ==
  pc = "fold" =>
    \A c \in Cells :
      /\ first_hit[c] # << >> => st[c].arrival_time = R(first_hit[c][1], 1)
      /\ first_hit[c] = << >> <=> st[c].arrival_time = not_arrived

\* a cell has seen eta > 0.01, but never at the finest level of the frame, and
\* has no arrival, while the other cell has its arrival from the first of
\* two frames that had eta > 0.01 there at the finest level
C5_Witness ==
  /\ pc = "fold"
  /\ nfolds >= 2
  /\ \E c, k \in Cells :
       /\ first_hit[c] = << >>
       /\ FGt(st[c].eta_max, eta_arrival)
       /\ st[c].arrival_time = not_arrived
       /\ Hits(frame, k)
       /\ first_hit[k] # <<frame.time>>
       /\ st[k].arrival_time = R(first_hit[k][1], 1)

----------------------------------------------------------------------------
(* C6: at a cell of a frame with depth 0 the derived solid fraction and     *)
(* velocity are 0, whatever hm, hu and hv are there, and neither of m, vel, *)
(* density and mom is NaN or infinite.                                      *)
C6_ZeroDepthSafe ==
  nfolds >= 1 =>
    \A c \in Cells :
      LET d == FrameAt(frame, c)
      IN  frame.cell[c].h = Zero =>
            /\ d.m = Zero
            /\ d.vel = Zero
            /\ IsFinite(d.density)
            /\ IsFinite(d.mom)

(* C7: after the folds and the masking, froude_max is NaN at a cell only if *)
(* the cell is never-inundated (h_max below 0.00001 when the loop ended):   *)
(* the NaN froude of a frame with depth 0 does not stay as the froude_max   *)
(* of a cell that was inundated.                                            *)
C7_NoNaNFroudeWhereInundated ==
  pc = "masked" =>
    \A c \in Cells :
      IsNaN(st[c].froude_max) => FLt(folded[c].h_max, h_never)

(* C8: after the folds and the masking, every cell whose h_max was below    *)
(* 0.00001 when the loop ended has h_max, vel_max, mom_max, m_max,          *)
(* froude_max, eta_max_time, vel_max_time and arrival_time all NaN, also    *)
(* when an arrival or a peak time had been recorded there.                  *)
C8_NeverInundatedMasked ==
  pc = "masked" =>
    \A c \in Cells :
      FLt(folded[c].h_max, h_never) =>
        /\ IsNaN(st[c].h_max)
        /\ IsNaN(st[c].vel_max)
        /\ IsNaN(st[c].mom_max)
        /\ IsNaN(st[c].m_max)
        /\ IsNaN(st[c].froude_max)
        /\ IsNaN(st[c].eta_max_time)
        /\ IsNaN(st[c].vel_max_time)
        /\ IsNaN(st[c].arrival_time)

\* a masked cell that is never-inundated although the loop had recorded an
\* arrival, both peak times and non-zero maxima of m, vel and froude there
C8_Witness ==
  /\ pc = "masked"
  /\ \E c \in Cells :
       /\ FLt(folded[c].h_max, h_never)
       /\ FGe(folded[c].arrival_time, Zero)
       /\ FGe(folded[c].eta_max_time, Zero)
       /\ FGe(folded[c].vel_max_time, Zero)
       /\ FGt(folded[c].vel_max, Zero)
       /\ FGt(folded[c].m_max, Zero)
       /\ IsNaN(st[c].arrival_time)

(* C9: after the masking, h_min at a cell is NaN if and only if h_min never *)
(* left its fill value 99999 during the folds; an h_min written by a fold,  *)
(* a written 0 included, is kept.                                           *)
C9_DepthMinMaskedIffUnset ==
  pc = "masked" =>
    \A c \in Cells :
      /\ IsNaN(st[c].h_min) <=> ~h_min_left[c]
      /\ h_min_left[c] => st[c].h_min = folded[c].h_min

(* C10: for the arrays after any sequence of folds, the masking applied     *)
(* twice gives the same arrays (values, levels and times) as applied once.  *)
C10_MaskingIdempotent ==
  pc = "fold" => MaskArrays(MaskArrays(st)) = MaskArrays(st)

\* arrays that the masking changes: one cell is never-inundated with an
\* arrival recorded, the other is inundated with h_min = 0 and no arrival
C10_Witness ==
  /\ pc = "fold"
  /\ nfolds >= 2
  /\ \E c, k \in Cells :
       /\ FLt(st[c].h_max, h_never)
       /\ FGe(st[c].arrival_time, Zero)
       /\ ~FLt(st[k].h_max, h_never)
       /\ st[k].h_min = Zero
       /\ st[k].arrival_time = not_arrived
       /\ MaskArrays(st)[k] # st[k]


----------------------------------------------------------------------------
(* C11: with the files folded in the order of their times, at every cell  *)
(* with an arrival recorded both peak times stay less than 60 after the   *)
(* arrival time: eta_max_time - arrival_time < 60 and                     *)
(* vel_max_time - arrival_time < 60.                                      *)
C11_PeakTimesWithinWindowOfArrival ==
  \A c \in Cells :
    FGe(st[c].arrival_time, Zero) =>
      /\ FLt(FSub(st[c].eta_max_time, st[c].arrival_time), R(late_window, 1))
      /\ FLt(FSub(st[c].vel_max_time, st[c].arrival_time), R(late_window, 1))


----------------------------------------------------------------------------
\* whether every tracked quantity of frame f is finite at every cell
FiniteFrame(f) ==
  \A c \in Cells, q \in Quantities : IsFinite(New(FrameAt(f, c), q))

\* sequence fs with the frames at positions i and j exchanged
Exchange(fs, i, j) ==
  [k \in 1 .. Len(fs) |-> IF k = i THEN fs[j] ELSE IF k = j THEN fs[i] ELSE fs[k]]

\* the value and the level that arrays s record for every tracked quantity
\* at every cell
Records(s) ==
  [c \in Cells |-> [q \in Quantities |-> <<Val(s[c], q), Lev(s[c], q)>>]]

\* whether arrays s and t record the same value and the same level for every
\* tracked quantity at every cell
SameRecords(s, t) == Records(s) = Records(t)

(* C12, as amended: when the tracked quantities of the folded frames are   *)
(* all finite, the recorded values and levels do not depend on the order   *)
(* of the folds: exchanging any two frames of the folded sequence, and     *)
(* hence permuting it in any way, ends with the same value and the same    *)
(* level of every tracked quantity at every cell.                          *)
C12_RecordsOrderIndependent ==
  (\A k \in 1 .. Len(hist) : FiniteFrame(hist[k])) =>
    \A i, j \in 1 .. Len(hist) :
      i < j => \A t \in {FoldAll(InitArrays, Exchange(hist, i, j))} : SameRecords(st, t)

\* two finite frames with different levels at a cell were folded; the other
\* order records the same values and levels and another arrival time
C12_Witness ==
  /\ Len(hist) >= 2
  /\ \A k \in 1 .. Len(hist) : FiniteFrame(hist[k])
  /\ \E i, j \in 1 .. Len(hist), c \in Cells :
       /\ i < j
       /\ hist[i].cell[c].level # hist[j].cell[c].level
       /\ New(FrameAt(hist[i], c), "vel") # New(FrameAt(hist[j], c), "vel")
       /\ LET t == FoldAll(InitArrays, Exchange(hist, i, j))
          IN  SameRecords(st, t) /\ t[c].arrival_time # st[c].arrival_time

\* C12 as stated: from the arrays a run starts with, there are a sequence of
\* two or three frames with finite quantities and two of its positions such
\* that exchanging the two frames ends with a different value or level of
\* some tracked quantity at some cell
C12_RecordsOrderDependent ==
  nfolds = 0 =>
    \E n \in 2 .. 3 :
      \E fs \in [1 .. n -> {f \in HistFrames : FiniteFrame(f)}] :
        \E i, j \in 1 .. n :
          /\ i < j
          /\ ~SameRecords(FoldAll(st, fs), FoldAll(st, Exchange(fs, i, j)))


----------------------------------------------------------------------------
\* the overwrite mask of quantity q at a cell, lines 354-374: s the arrays at
\* the cell, d the frame's arrays at the cell
Writes(s, d, q) ==
  IF q = "h_min"
  THEN overwrite_min(d.level, Lev(s, q), New(d, q), Val(s, q))
  ELSE overwrite_max(d.level, Lev(s, q), New(d, q), Val(s, q))

\* the arrays at cell c before the first and after each of the frames fs
RECURSIVE CellStates(_, _)
CellStates(fs, c) ==
  IF fs = << >> THEN <<InitCell>>
  ELSE LET p == CellStates(SubSeq(fs, 1, Len(fs) - 1), c)
           f == fs[Len(fs)]
       IN  Append(p, FoldCell(p[Len(p)], FrameAt(f, c), R(f.time, 1), maxlevel(f)))

(* C13: after every fold, for every tracked quantity and cell, the level   *)
(* recorded is the level that the frame whose mask last wrote the value    *)
(* had at the cell, and the value recorded is that frame's value (level 0  *)
(* and the initial value while no frame wrote); and a fold that changes    *)
(* the value records its frame's level, a fold that changes the level      *)
(* records its frame's value.                                              *)
C13_ValueAndLevelPaired ==
  \A c \in Cells :
    \A ps \in {CellStates(hist, c)} :
        /\ ps[Len(ps)] = st[c]
        /\ \A q \in Quantities :
             LET ws == {k \in 1 .. Len(hist) : Writes(ps[k], FrameAt(hist[k], c), q)}
             IN  /\ ws = {} => Lev(st[c], q) = 0 /\ Val(st[c], q) = Val(InitCell, q)
                 /\ \A k \in ws :
                      (\A j \in ws : j <= k) =>
                        /\ Lev(st[c], q) = hist[k].cell[c].level
                        /\ Val(st[c], q) = New(FrameAt(hist[k], c), q)
                 /\ \A k \in 1 .. Len(hist) :
                      /\ Val(ps[k + 1], q) # Val(ps[k], q) =>
                           Lev(ps[k + 1], q) = hist[k].cell[c].level
                      /\ Lev(ps[k + 1], q) # Lev(ps[k], q) =>
                           Val(ps[k + 1], q) = New(FrameAt(hist[k], c), q)

\* a frame at the finest level wrote vel_max, and the coarser frame with a
\* larger vel folded after it wrote neither the value nor the level
C13_Witness ==
  /\ Len(hist) >= 2
  /\ \E c \in Cells :
       LET a == hist[Len(hist) - 1]
           b == hist[Len(hist)]
       IN  /\ a.cell[c].level > b.cell[c].level
           /\ FGt(FrameAt(b, c).vel, FrameAt(a, c).vel)
           /\ st[c].vel_max = FrameAt(a, c).vel
           /\ st[c].vel_max_lev = a.cell[c].level


----------------------------------------------------------------------------
\* the highest of the levels in set ls, 0 when there is none
Highest(ls) == CHOOSE l \in ls \cup {0} : \A k \in ls \cup {0} : k <= l

(* C14: at every point of a run, the masking and the writing of the files  *)
(* included, lev_max at every cell is the highest level a folded frame had *)
(* at that cell, and 0 when no frame was folded; so it never decreases     *)
(* from one fold to the next and the masking leaves it as the loop left it.*)
C14_LevMaxIsHighestLevelFolded ==
  \A c \in Cells :
    /\ st[c].lev_max = Highest({hist[k].cell[c].level : k \in 1 .. Len(hist)})
    /\ pc # "fold" => st[c].lev_max = folded[c].lev_max

\* past the masking, a never-inundated cell keeps the finest level as its
\* lev_max although the last frame folded was coarser there
C14_Witness ==
  /\ pc = "masked"
  /\ Len(hist) = 2
  /\ \E c \in Cells :
       /\ hist[1].cell[c].level = MaxLevel
       /\ hist[2].cell[c].level < MaxLevel
       /\ IsNaN(st[c].h_max)
       /\ st[c].lev_max = MaxLevel


----------------------------------------------------------------------------
\* whether the raster is written, and the shapefile
RasterWritten == written.out_file # << >>

ExtentWritten == written.extent_shp_val_out_file # << >>

(* C15: the raster is written past the masking, from the masked arrays,    *)
(* and before the extent is delineated: no file is written in the loop or  *)
(* right after the masking, and the shapefile is written only when the     *)
(* raster is; when the extent geometry is not valid the run ends with an   *)
(* error, the shapefile is not written and the raster written before is    *)
(* still there with the content it got.                                    *)
C15_GeometryFailureKeepsRaster ==
  /\ pc \in {"fold", "masked"} => ~RasterWritten /\ ~ExtentWritten
  /\ pc \in {"raster", "done", "AssertionError"} =>
       /\ RasterWritten
       /\ \E write_froude \in BOOLEAN :
            written.out_file[1] =
              [c \in Cells |-> Bands(MaskCell(folded[c]), write_froude)]
  /\ ExtentWritten => RasterWritten /\ pc = "done"
  /\ pc = "AssertionError" => ~ExtentWritten

\* the run failed on the geometry of a non-empty extent
C15_Witness ==
  /\ pc = "AssertionError"
  /\ RasterWritten
  /\ ~ExtentWritten
  /\ Extent(st, "height") # {}


----------------------------------------------------------------------------
\* the values of quantity q at cell c in the frames of fs that have level l
\* at that cell
ValuesAt(fs, c, q, l) ==
  {New(FrameAt(fs[k], c), q) : k \in {i \in 1 .. Len(fs) : fs[i].cell[c].level = l}}

(* C16: after any sequence of folds of frames whose tracked quantities are *)
(* finite, at every cell with lev_max >= 1 the value recorded for every    *)
(* tracked quantity is the largest (for h_min the smallest) of the values  *)
(* of the folded frames whose level at the cell is lev_max there: it is    *)
(* one of those values and none of them beats it.                          *)
C16_RecordIsBestAtHighestLevel ==
  (\A k \in 1 .. Len(hist) : FiniteFrame(hist[k])) =>
    \A c \in Cells, q \in Quantities :
      st[c].lev_max >= 1 =>
        LET vs == ValuesAt(hist, c, q, st[c].lev_max)
        IN  /\ Val(st[c], q) \in vs
            /\ \A v \in vs : ~Wins(q, v, Val(st[c], q))

\* three finite frames were folded: two at the finest level of a cell with
\* different vel, and a coarser one with a larger vel than both, which is not
\* the vel recorded; the eta recorded is below the initial 0
C16_Witness ==
  /\ Len(hist) = 3
  /\ \A k \in 1 .. 3 : FiniteFrame(hist[k])
  /\ \E c \in Cells, i, j, k \in 1 .. 3 :
       /\ hist[i].cell[c].level = MaxLevel
       /\ hist[j].cell[c].level = MaxLevel
       /\ hist[k].cell[c].level = 0
       /\ FGt(FrameAt(hist[j], c).vel, FrameAt(hist[i], c).vel)
       /\ FGt(FrameAt(hist[k], c).vel, FrameAt(hist[j], c).vel)
       /\ st[c].vel_max = FrameAt(hist[j], c).vel


----------------------------------------------------------------------------
\* whether the fold of frame f records the arrival at cell c of arrays s
Arrives(s, f, c) ==
  overwrite_arrival(FrameAt(f, c).eta, s[c].arrival_time, f.cell[c].level, maxlevel(f))

\* whether the frame folded last came 60 or more after eta_max_time at cell c
SawLate(c) ==
  nfolds >= 1 /\ FGe(FSub(R(frame.time, 1), st[c].eta_max_time), R(late_window, 1))

\* whether the fold of this step respects the guard of the peak times at
\* cell c: eta_max_time (vel_max_time) changes only if the fold records the
\* arrival, or its mask of eta (of vel) is set while an arrival is recorded
\* and the frame's time is less than 60 after eta_max_time
RearmGuarded(c) ==
  LET d      == FrameAt(frame', c)
      window == /\ FGe(st[c].arrival_time, Zero)
                /\ FLt(FSub(R(frame'.time, 1), st[c].eta_max_time), R(late_window, 1))
  IN  /\ st'[c].eta_max_time # st[c].eta_max_time =>
           Arrives(st, frame', c) \/ (Writes(st[c], d, "eta") /\ window)
      /\ st'[c].vel_max_time # st[c].vel_max_time =>
           Arrives(st, frame', c) \/ (Writes(st[c], d, "vel") /\ window)

\* whether the fold of this step leaves both peak times of cell c as they are
PeakTimesKept(c) ==
  /\ st'[c].eta_max_time = st[c].eta_max_time
  /\ st'[c].vel_max_time = st[c].vel_max_time

----------------------------------------------------------------------------
(* C18: after every fold, at every cell the level recorded for each of the *)
(* seven tracked quantities is lev_max, also for froude when a frame's     *)
(* froude is NaN; so the seven levels of a cell are equal, and none of     *)
(* them is lower after a fold than before it.                              *)
C18_LevelsEqualLevMax ==
  \A c \in Cells :
    \A ps \in {CellStates(hist, c)} :
        \A q \in Quantities :
          /\ Lev(st[c], q) = st[c].lev_max
          /\ \A k \in 1 .. Len(hist) : Lev(ps[k + 1], q) >= Lev(ps[k], q)

\* a NaN froude is recorded at the finest level of a cell, the frame folded
\* last has a finite froude at that level there, and a coarser cell has
\* recorded values of that frame
C18_Witness ==
  /\ Len(hist) >= 2
  /\ \E c, k \in Cells :
       /\ IsNaN(st[c].froude_max)
       /\ st[c].froude_max_lev = MaxLevel
       /\ frame.cell[c].level = MaxLevel
       /\ IsFinite(FrameAt(frame, c).froude)
       /\ st[k].lev_max = 0
       /\ st[k].h_max = FrameAt(frame, k).h


----------------------------------------------------------------------------
\* whether the three times of the arrays s of a cell are consistent, the
\* frame folded last having time t
TimesConsistent(s, t) ==
  \/ /\ s.arrival_time = not_arrived
     /\ s.eta_max_time = not_arrived
     /\ s.vel_max_time = not_arrived
  \/ /\ FGe(s.arrival_time, Zero)
     /\ FGe(s.eta_max_time, s.arrival_time)
     /\ FGe(s.vel_max_time, s.arrival_time)
     /\ FGe(t, s.eta_max_time)
     /\ FGe(t, s.vel_max_time)
     /\ FLt(FSub(s.vel_max_time, s.eta_max_time), R(late_window, 1))

=============================================================================
